---- MODULE Spec2Model ----
(***************************************************************************)
(* Model of the comment moderation engine (AutoMonitor) of the online      *)
(* gambling comment moderation system, together with the consumer side     *)
(* (Streamlit session state, sidebar controls, pending-spam page) that     *)
(* runs concurrently with the engine's poll loop.                          *)
(*                                                                         *)
(* Atomicity: a poll-loop step runs from one blocking call (Content API    *)
(* request, classifier inference, sleep) to the next; the in-memory code   *)
(* between two blocking calls is one step.  A consumer handler is one      *)
(* step, except where it blocks (the bounded join of stop()) or performs   *)
(* two writes the loop can observe separately (the auto-delete toggle).    *)
(***************************************************************************)
EXTENDS Integers, Sequences, FiniteSets, TLC

\* ------------------------------------------------------------------ bounds
MaxThreads == 2
MaxCycles == 2
ConfMax == 2
MaxPending == 2
MaxUiDeletes == 1
MaxLogAppends == 150
MaxManualDeletes == 101

\* ------------------------------------------------------- program constants
LogCapacity == 100
DedupCapacity == 1000
DedupEvict == 200
\* confidence_threshold = 0.5, on the scale 0..ConfMax of confidence levels
DefaultThreshold == 1
\* poll_interval: int = 30
DefaultPollInterval == 30
\* self.last_check = None: no poll cycle has completed
Never == 0

\* ------------------------------------------------------------ the universe
Threads == 1..MaxThreads
NoThread == 0
CommentIds == {"c1", "c2"}
\* get_recent_posts(limit=5): the listings the Content API may answer with
PostListings == {<<"p1", "p2">>}
\* get_post_comments(post_id, limit=20): the listings the Content API may answer with
Comment(id, message) == [id |-> id, message |-> message]
CommentListings(p) ==
    IF p = "p1"
    THEN {<<Comment("c1", "depo maxwin"), Comment("c2", "nice post")>>,
          <<Comment("c1", " "), Comment("c2", "nice post")>>}
    ELSE {<<Comment("c1", "depo maxwin")>>}
Confidences == 0..ConfMax
\* spam_detector.predict(message) results
Verdicts == [is_spam : BOOLEAN, confidence : Confidences]
NoPrediction == [is_spam |-> FALSE, confidence |-> -1]
\* facebook_api.delete_comment(comment_id) outcomes
DeleteOutcomes == {"true", "false", "raise"}
\* an optional value: None, or Some(x)
None == <<>>
Some(x) == <<x>>

VARIABLES
    \* AutoMonitor fields
    poll_interval,
    \* _add_log_entry between the read of self.internal_logs[-100:] and the
    \* assignment of self.internal_logs: the slice the thread holds
    trimmed,
    \* get_recent_activity: the limit of the call the consumer is in and the
    \* list it returns
    limit, recent,
    is_running, monitor_thread, auto_delete_enabled, confidence_threshold,
    pending_spam, statistics, processed_comments, internal_logs, last_check,
    \* st.session_state entries
    ss_auto_delete_enabled, ss_pending_spam, ss_statistics, ss_monitor_logs,
    \* whether st.session_state resolves to the UI session from the loop thread
    ssVisible,
    \* poll-loop threads: position and locals
    pc, posts, pi, comments, ci, prediction,
    \* consumer (main thread) position
    uiPc,
    \* history: poll cycles begun, classifier calls, delete_comment calls and
    \* delete_comment successes per comment id in the current engine lifetime,
    \* ids resolved by the operator, last completed toggle, last update_config
    cycles, classified, api_deletes, api_deleted, resolved, lastToggle, lastCfg,
    \* FacebookAPI.delete_comment: position of the call, its retry_count and
    \* attempt, the answers its requests got so far, the value returned
    dcPc, retry_count, attempt, responses, returned

engineVars == <<is_running, monitor_thread, auto_delete_enabled, confidence_threshold,
                pending_spam, statistics, processed_comments, internal_logs, last_check>>
sessionVars == <<ss_auto_delete_enabled, ss_pending_spam, ss_statistics, ss_monitor_logs,
                 ssVisible>>
threadVars == <<pc, posts, pi, comments, ci, prediction>>
historyVars == <<cycles, classified, api_deletes, api_deleted, resolved, lastToggle, lastCfg>>
activityVars == <<limit, recent>>
deleteVars == <<dcPc, retry_count, attempt, responses, returned>>
vars == <<engineVars, sessionVars, poll_interval, trimmed, activityVars, deleteVars, threadVars, uiPc, historyVars>>

\* ----------------------------------------------------------------- helpers
SeqToSet(s) == {s[i] : i \in 1..Len(s)}

\* list.remove(item) for the item at position i (items are distinct dicts)
RemoveAt(s, i) == SubSeq(s, 1, i - 1) \o SubSeq(s, i + 1, Len(s))

\* message.strip()
StripNothing(m) == m
Strip(m) == IF m = " " THEN "" ELSE m

LogEntry(action, c) == [action |-> action, comment_id |-> c]

\* _add_log_entry: append, then keep the last 100
add_log_entry_keep_first(logs, action, c) ==
    LET l == Append(logs, LogEntry(action, c))
    IN IF Len(l) > LogCapacity THEN SubSeq(l, 1, LogCapacity) ELSE l
add_log_entry(logs, action, c) ==
    LET l == Append(logs, LogEntry(action, c))
    IN IF Len(l) > LogCapacity THEN SubSeq(l, Len(l) - LogCapacity + 1, Len(l)) ELSE l

\* self.statistics as constructed and as reset
InitStatistics(start_time) ==
    [comments_processed |-> 0, spam_removed |-> 0, errors |-> 0,
     spam_detected |-> 0, has_spam_detected |-> FALSE, start_time |-> start_time]

Inc(stats, field) == [stats EXCEPT ![field] = @ + 1]

\* st.session_state.statistics as initialised by the application
InitSessionStatistics ==
    [comments_processed |-> 0, spam_removed |-> 0, errors |-> 0,
     spam_detected |-> 0, start_time |-> FALSE, last_check |-> Never]

\* st.session_state.statistics.update(self.statistics); ...['last_check'] = self.last_check
SessionStatisticsUpdate(ss, stats, check) ==
    [ss EXCEPT !.comments_processed = stats.comments_processed,
               !.spam_removed = stats.spam_removed,
               !.errors = stats.errors,
               !.spam_detected = IF stats.has_spam_detected THEN stats.spam_detected ELSE @,
               !.start_time = stats.start_time,
               !.last_check = check]

\* prediction['is_spam'] and prediction['confidence'] > self.confidence_threshold
IsSpamDecisionGe(p, threshold) == p.is_spam /\ p.confidence >= threshold
IsSpamDecisionAnyConfidence(p, threshold) == p.is_spam
IsSpamDecisionAlways(p, threshold) == TRUE
IsSpamDecision(p, threshold) == p.is_spam /\ p.confidence > threshold

\* the value of current_auto_delete at the delete decision: the session flag
\* when the loop thread can read it, else the engine's own field
CurrentAutoDeleteCached(own, session, visible) == own
CurrentAutoDelete(own, session, visible) == IF visible THEN session ELSE own

\* update_config: the new value of self.auto_delete_enabled
UpdateAutoDeleteIfTruthy(old, arg) == IF arg = Some(TRUE) THEN arg[1] ELSE old
UpdateAutoDelete(old, arg) == IF arg # None THEN arg[1] ELSE old

\* update_config: the new value of self.confidence_threshold
UpdateThresholdOrDefault(old, arg) == IF arg # None THEN arg[1] ELSE DefaultThreshold
UpdateThreshold(old, arg) == IF arg # None THEN arg[1] ELSE old

\* len(self.processed_comments) > 1000
DedupFullAtCapacity(S) == Cardinality(S) >= DedupCapacity
DedupFull(S) == Cardinality(S) > DedupCapacity

\* the ids list(self.processed_comments)[:200] may name: set order is arbitrary
Evictions(S) ==
    IF DedupFull(S)
    THEN {E \in SUBSET S : Cardinality(E) = DedupEvict}
    ELSE {{}}

\* the ways self.processed_comments.add(c) and the eviction can leave the set
AfterAdd(S, c) == {(S \cup {c}) \ ev : ev \in Evictions(S \cup {c})}

\* self.pending_spam.append(spam_data), st.session_state.pending_spam.append(spam_data)
add_to_pending_spam(list, c) == Append(list, c)

\* datetime.now() as a logical clock: the number of poll cycles begun so far
Now == cycles

Alive(t) == pc[t] \notin {"idle", "dead"}
\* positions at which the loop thread is inside a blocking collaborator call
InFlight == {"posts", "comments", "predict", "delete"}

Init ==
    /\ poll_interval = DefaultPollInterval
    /\ trimmed = None
    /\ limit = 0
    /\ recent = <<>>
    /\ is_running = FALSE
    /\ monitor_thread = NoThread
    /\ auto_delete_enabled = TRUE
    /\ confidence_threshold = DefaultThreshold
    /\ pending_spam = <<>>
    /\ statistics = InitStatistics(FALSE)
    /\ processed_comments = {}
    /\ internal_logs = <<>>
    /\ last_check = Never
    /\ ss_auto_delete_enabled = TRUE
    /\ ss_pending_spam = <<>>
    /\ ss_statistics = InitSessionStatistics
    /\ ss_monitor_logs = <<>>
    /\ ssVisible \in BOOLEAN
    /\ pc = [t \in Threads |-> "idle"]
    /\ posts = [t \in Threads |-> <<>>]
    /\ pi = [t \in Threads |-> 0]
    /\ comments = [t \in Threads |-> <<>>]
    /\ ci = [t \in Threads |-> 0]
    /\ prediction = [t \in Threads |-> NoPrediction]
    /\ uiPc = "idle"
    /\ cycles = 0
    /\ classified = [c \in CommentIds |-> 0]
    /\ api_deletes = [c \in CommentIds |-> 0]
    /\ api_deleted = [c \in CommentIds |-> 0]
    /\ resolved = {}
    /\ lastToggle = None
    /\ lastCfg = None
    /\ dcPc = "idle"
    /\ retry_count = 0
    /\ attempt = 0
    /\ responses = <<>>
    /\ returned = "none"

\* ------------------------------------------------------------ the poll loop
ResetLocals(t) ==
    /\ posts' = [posts EXCEPT ![t] = <<>>]
    /\ pi' = [pi EXCEPT ![t] = 0]
    /\ comments' = [comments EXCEPT ![t] = <<>>]
    /\ ci' = [ci EXCEPT ![t] = 0]
    /\ prediction' = [prediction EXCEPT ![t] = NoPrediction]

\* _monitor_loop: while self.is_running, and the test of the sleep loop
LoopContinuesAlways(running) == TRUE
LoopContinues(running) == running

\* _monitor_loop: the sleep between cycles ends, the while test, the
\* configuration sync and the call of get_recent_posts that opens a cycle
BeginCycle(t) ==
    /\ pc[t] = "sleep"
    /\ IF ~LoopContinues(is_running)
       THEN /\ pc' = [pc EXCEPT ![t] = "dead"]
            /\ UNCHANGED <<auto_delete_enabled, cycles>>
       ELSE /\ cycles < MaxCycles
            /\ cycles' = cycles + 1
            /\ auto_delete_enabled' =
                   IF ssVisible THEN ss_auto_delete_enabled ELSE auto_delete_enabled
            /\ pc' = [pc EXCEPT ![t] = "posts"]
    /\ UNCHANGED <<is_running, monitor_thread, confidence_threshold, pending_spam,
                   statistics, processed_comments, internal_logs, last_check,
                   sessionVars, poll_interval, trimmed, activityVars, deleteVars, posts, pi, comments, ci, prediction, uiPc,
                   classified, api_deletes, api_deleted, resolved, lastToggle, lastCfg>>

\* _monitor_loop, except branch: self.statistics['errors'] += 1
CountErrorTwice(stats) == Inc(Inc(stats, "errors"), "errors")
CountError(stats) == Inc(stats, "errors")

\* _monitor_loop, except branch: an exception of the cycle is counted and
\* the loop goes to its sleep
LoopError(t) ==
    /\ statistics' = CountError(statistics)
    /\ pc' = [pc EXCEPT ![t] = "sleep"]
    /\ ResetLocals(t)
    /\ UNCHANGED <<processed_comments, internal_logs, classified, last_check,
                   ss_statistics>>

\* the comment loop of _check_for_new_comments from comment i on, up to the
\* next comment to classify: a comment already in processed_comments is
\* skipped, a comment with a blank message is marked processed at once.
\* The result is the index reached and the processed set.
RECURSIVE SkipSeen(_, _, _)
SkipSeen(cs, i, seen) ==
    IF i > Len(cs) THEN {[ci |-> i, seen |-> seen]}
    ELSE IF cs[i].id \in seen THEN SkipSeen(cs, i + 1, seen)
    ELSE IF Strip(cs[i].message) = ""
         THEN UNION {SkipSeen(cs, i + 1, s) : s \in AfterAdd(seen, cs[i].id)}
         ELSE {[ci |-> i, seen |-> seen]}

\* the poll cycle goes on with comment i of the listing cs, the engine's
\* processed set, statistics and log being seen, stats and logs: up to the
\* call of spam_detector.predict for the next comment to classify, or the
\* call of get_post_comments for the next post, or the end of the cycle
\* (last_check, the statistics published to the session, the sleep)
Continue(t, cs, i, seen, stats, logs) ==
    \E r \in SkipSeen(cs, i, seen) :
      /\ processed_comments' = r.seen
      /\ IF r.ci <= Len(cs)
         THEN /\ statistics' = Inc(stats, "comments_processed")
              /\ internal_logs' = add_log_entry(logs, "NEW_COMMENT", cs[r.ci].id)
              /\ classified' = [classified EXCEPT ![cs[r.ci].id] = @ + 1]
              /\ comments' = [comments EXCEPT ![t] = cs]
              /\ ci' = [ci EXCEPT ![t] = r.ci]
              /\ prediction' = [prediction EXCEPT ![t] = NoPrediction]
              /\ pc' = [pc EXCEPT ![t] = "predict"]
              /\ UNCHANGED <<posts, pi, last_check, ss_statistics>>
         ELSE /\ statistics' = stats
              /\ internal_logs' = logs
              /\ UNCHANGED classified
              /\ IF pi[t] < Len(posts[t])
                 THEN /\ pi' = [pi EXCEPT ![t] = @ + 1]
                      /\ comments' = [comments EXCEPT ![t] = <<>>]
                      /\ ci' = [ci EXCEPT ![t] = 0]
                      /\ prediction' = [prediction EXCEPT ![t] = NoPrediction]
                      /\ pc' = [pc EXCEPT ![t] = "comments"]
                      /\ UNCHANGED <<posts, last_check, ss_statistics>>
                 ELSE /\ last_check' = Now
                      /\ ss_statistics' =
                             IF ssVisible THEN SessionStatisticsUpdate(ss_statistics, stats, Now)
                             ELSE ss_statistics
                      /\ pc' = [pc EXCEPT ![t] = "sleep"]
                      /\ ResetLocals(t)

\* get_recent_posts returns or raises
PostsReturn(t) ==
    /\ pc[t] = "posts"
    /\ \/ LoopError(t)
       \/ \E ps \in PostListings :
            /\ posts' = [posts EXCEPT ![t] = ps]
            /\ pi' = [pi EXCEPT ![t] = 1]
            /\ pc' = [pc EXCEPT ![t] = "comments"]
            /\ UNCHANGED <<statistics, processed_comments, internal_logs, classified,
                           last_check, ss_statistics, comments, ci, prediction>>
    /\ UNCHANGED <<is_running, monitor_thread, auto_delete_enabled, confidence_threshold,
                   pending_spam, ss_auto_delete_enabled, ss_pending_spam, ss_monitor_logs,
                   ssVisible, poll_interval, trimmed, activityVars, deleteVars, uiPc, cycles, api_deletes, api_deleted, resolved, lastToggle,
                   lastCfg>>

\* for comment in comments: the position of the comment the loop begins with
FirstIndexLast(cs) == Len(cs)
FirstIndex(cs) == 1

\* get_post_comments(post_id) returns or raises
CommentsReturn(t) ==
    /\ pc[t] = "comments"
    /\ \/ LoopError(t)
       \/ \E cs \in CommentListings(posts[t][pi[t]]) :
            Continue(t, cs, FirstIndex(cs), processed_comments, statistics, internal_logs)
    /\ UNCHANGED <<is_running, monitor_thread, auto_delete_enabled, confidence_threshold,
                   pending_spam, ss_auto_delete_enabled, ss_pending_spam, ss_monitor_logs,
                   ssVisible, poll_interval, trimmed, activityVars, deleteVars, uiPc, cycles, api_deletes, api_deleted, resolved, lastToggle,
                   lastCfg>>

\* spam_detector.predict returns a verdict or raises; a raise leaves
\* _process_comment and _check_for_new_comments (both re-raise) and is
\* counted by the loop
PredictReturn(t) ==
    /\ pc[t] = "predict"
    /\ \/ LoopError(t)
       \/ \E v \in Verdicts :
            /\ prediction' = [prediction EXCEPT ![t] = v]
            /\ pc' = [pc EXCEPT ![t] = "decide"]
            /\ UNCHANGED <<statistics, processed_comments, internal_logs, classified,
                           last_check, ss_statistics, posts, pi, comments, ci>>
    /\ UNCHANGED <<is_running, monitor_thread, auto_delete_enabled, confidence_threshold,
                   pending_spam, ss_auto_delete_enabled, ss_pending_spam, ss_monitor_logs,
                   ssVisible, poll_interval, trimmed, activityVars, deleteVars, uiPc, cycles, api_deletes, api_deleted, resolved, lastToggle,
                   lastCfg>>

\* _process_comment after a successful _delete_spam_comment:
\* self.statistics['spam_removed'] += 1
CountRemovedTwice(stats, success) ==
    IF success THEN Inc(Inc(stats, "spam_removed"), "spam_removed") ELSE stats
CountRemoved(stats, success) ==
    IF success THEN Inc(stats, "spam_removed") ELSE stats

\* _process_comment from the verdict on: the spam decision, the statistics and
\* log of a detection, the re-read of the auto-delete flag, and either the
\* call of delete_comment or the pending branch; a comment done with is
\* added to processed_comments and the cycle goes on
Decide(t) ==
    /\ pc[t] = "decide"
    /\ LET c == comments[t][ci[t]].id
           current_auto_delete ==
               CurrentAutoDelete(auto_delete_enabled, ss_auto_delete_enabled, ssVisible)
           stats == [statistics EXCEPT !.spam_detected = @ + 1,
                                       !.has_spam_detected = TRUE]
           detected == add_log_entry(internal_logs, "SPAM_DETECTED", c)
       IN
       IF ~IsSpamDecision(prediction[t], confidence_threshold)
       THEN /\ \E seen \in AfterAdd(processed_comments, c) :
                 Continue(t, comments[t], ci[t] + 1, seen, statistics, internal_logs)
            /\ UNCHANGED <<auto_delete_enabled, pending_spam, ss_pending_spam,
                           api_deletes, api_deleted, resolved>>
       ELSE /\ auto_delete_enabled' = current_auto_delete
            /\ resolved' = resolved \ {c}
            /\ IF current_auto_delete
               THEN /\ statistics' = stats
                    /\ internal_logs' = detected
                    /\ api_deletes' = [api_deletes EXCEPT ![c] = @ + 1]
                    /\ UNCHANGED api_deleted
                    /\ pc' = [pc EXCEPT ![t] = "delete"]
                    /\ UNCHANGED <<pending_spam, ss_pending_spam, processed_comments,
                                   classified, last_check, ss_statistics, posts, pi,
                                   comments, ci, prediction>>
               ELSE /\ pending_spam' = add_to_pending_spam(pending_spam, c)
                    /\ ss_pending_spam' =
                           IF ssVisible THEN add_to_pending_spam(ss_pending_spam, c)
                           ELSE ss_pending_spam
                    /\ \E seen \in AfterAdd(processed_comments, c) :
                         Continue(t, comments[t], ci[t] + 1, seen, stats,
                                  add_log_entry(detected, "PENDING_SPAM", c))
                    /\ UNCHANGED <<api_deletes, api_deleted>>
    /\ UNCHANGED <<is_running, monitor_thread, confidence_threshold,
                   ss_auto_delete_enabled, ss_monitor_logs, ssVisible, poll_interval, trimmed, activityVars, deleteVars,
                   uiPc, cycles, lastToggle, lastCfg>>

\* _delete_spam_comment after delete_comment returned or raised, the rest of
\* the auto-delete branch of _process_comment, and the cycle going on
DeleteReturn(t) ==
    /\ pc[t] = "delete"
    /\ LET c == comments[t][ci[t]].id IN
       \E outcome \in DeleteOutcomes, seen \in AfterAdd(processed_comments, c) :
         LET success == (outcome = "true") IN
         /\ api_deleted' = [api_deleted EXCEPT ![c] = IF success THEN @ + 1 ELSE @]
         /\ Continue(t, comments[t], ci[t] + 1, seen,
                     CountRemoved(statistics, success),
                     IF success THEN add_log_entry(internal_logs, "DELETED", c)
                     ELSE internal_logs)
    /\ UNCHANGED <<is_running, monitor_thread, auto_delete_enabled, confidence_threshold,
                   pending_spam, ss_auto_delete_enabled, ss_pending_spam, ss_monitor_logs,
                   ssVisible, poll_interval, trimmed, activityVars, deleteVars, uiPc, cycles, api_deletes, resolved, lastToggle,
                   lastCfg>>

\* ------------------------------------------------------------ the consumer
FreeThreads == {t \in Threads : pc[t] = "idle"}
NoCalls == [c \in CommentIds |-> 0]

\* start: "if self.is_running: return"
AlreadyRunningNever(running) == FALSE
AlreadyRunning(running) == running

\* start: self.processed_comments.clear()
ClearedKeepsAll(S) == S
Cleared(S) == {}

\* AutoMonitor.start
Start ==
    /\ uiPc = "idle"
    /\ is_running \/ FreeThreads # {}
    /\ IF AlreadyRunning(is_running)
       THEN UNCHANGED <<is_running, monitor_thread, statistics, processed_comments, pc,
                        classified, api_deletes, api_deleted>>
       ELSE LET t == CHOOSE x \in FreeThreads : \A y \in FreeThreads : x <= y IN
            /\ is_running' = TRUE
            /\ statistics' = [statistics EXCEPT !.start_time = TRUE]
            /\ processed_comments' = Cleared(processed_comments)
            /\ monitor_thread' = t
            /\ pc' = [pc EXCEPT ![t] = "sleep"]
            /\ classified' = NoCalls
            /\ api_deletes' = NoCalls
            /\ api_deleted' = NoCalls
    /\ UNCHANGED <<auto_delete_enabled, confidence_threshold, pending_spam, internal_logs,
                   last_check, sessionVars, poll_interval, trimmed, activityVars, deleteVars, posts, pi, comments, ci, prediction, uiPc,
                   cycles, resolved, lastToggle, lastCfg>>

\* AutoMonitor.stop up to the join
Stop ==
    /\ uiPc = "idle"
    /\ IF ~is_running
       THEN UNCHANGED <<is_running, uiPc>>
       ELSE /\ is_running' = FALSE
            /\ uiPc' = IF monitor_thread # NoThread /\ Alive(monitor_thread)
                       THEN "join" ELSE "idle"
    /\ UNCHANGED <<monitor_thread, auto_delete_enabled, confidence_threshold, pending_spam,
                   statistics, processed_comments, internal_logs, last_check,
                   sessionVars, poll_interval, trimmed, activityVars, deleteVars, threadVars, historyVars>>

\* self.monitor_thread.join(timeout=5) returns: the loop has ended, or the
\* five seconds expire while the loop is inside a blocking call
JoinReturn ==
    /\ uiPc = "join"
    /\ \/ ~Alive(monitor_thread)
       \/ pc[monitor_thread] \in InFlight
    /\ uiPc' = "idle"
    /\ UNCHANGED <<engineVars, sessionVars, poll_interval, trimmed, activityVars, deleteVars, threadVars, historyVars>>

\* AutoMonitor.update_config(auto_delete_enabled, confidence_threshold)
update_config(ad, th) ==
    /\ auto_delete_enabled' = UpdateAutoDelete(auto_delete_enabled, ad)
    /\ confidence_threshold' = UpdateThreshold(confidence_threshold, th)
    /\ lastCfg' = IF ad # None THEN ad ELSE lastCfg

\* update_config(ad, th) called on the engine directly
UpdateConfigCall(ad, th) ==
    /\ uiPc = "idle"
    /\ update_config(ad, th)
    /\ lastToggle' = IF ad # None THEN None ELSE lastToggle
    /\ UNCHANGED <<is_running, monitor_thread, pending_spam, statistics,
                   processed_comments, internal_logs, last_check, sessionVars,
                   poll_interval, trimmed, activityVars, deleteVars, threadVars, uiPc, cycles, classified,
                   api_deletes, api_deleted, resolved>>

\* the arguments of update_config: a field is passed or left out
AutoDeleteArgs == {None} \cup {Some(b) : b \in BOOLEAN}
ThresholdArgs == {None} \cup {Some(x) : x \in Confidences}

\* update_config called on the engine directly
UpdateConfig == \E ad \in AutoDeleteArgs, th \in ThresholdArgs : UpdateConfigCall(ad, th)

\* the sidebar checkbox changed: the session flag is written
ToggleSession ==
    /\ uiPc = "idle"
    /\ ss_auto_delete_enabled' = ~ss_auto_delete_enabled
    /\ uiPc' = "toggle"
    /\ lastToggle' = None
    /\ UNCHANGED <<engineVars, ss_pending_spam, ss_statistics, ss_monitor_logs, ssVisible, poll_interval, trimmed, activityVars, deleteVars,
                   threadVars, cycles, classified, api_deletes, api_deleted, resolved, lastCfg>>

\* the sidebar checkbox changed: update_config(auto_delete_enabled=auto_delete)
ToggleUpdateConfig ==
    /\ uiPc = "toggle"
    /\ update_config(Some(ss_auto_delete_enabled), None)
    /\ lastToggle' = Some(ss_auto_delete_enabled)
    /\ uiPc' = "idle"
    /\ UNCHANGED <<is_running, monitor_thread, pending_spam, statistics,
                   processed_comments, internal_logs, last_check, sessionVars, poll_interval, trimmed, activityVars, deleteVars,
                   threadVars, cycles, classified, api_deletes, api_deleted, resolved>>

\* AutoMonitor._add_to_pending_spam called on the engine directly
AddToPendingSpam ==
    /\ uiPc = "idle"
    /\ Len(pending_spam) < MaxPending
    /\ Len(ss_pending_spam) < MaxPending
    /\ \E c \in CommentIds :
         /\ pending_spam' = add_to_pending_spam(pending_spam, c)
         /\ ss_pending_spam' = add_to_pending_spam(ss_pending_spam, c)
         /\ resolved' = resolved \ {c}
    /\ UNCHANGED <<is_running, monitor_thread, auto_delete_enabled, confidence_threshold,
                   statistics, processed_comments, internal_logs, last_check,
                   ss_auto_delete_enabled, ss_statistics, ss_monitor_logs, ssVisible, poll_interval, trimmed, activityVars, deleteVars,
                   threadVars, uiPc, cycles, classified, api_deletes,
                   api_deleted, lastToggle, lastCfg>>

\* the items sync_pending_spam_to_session_state appends: those of the engine's
\* list whose id was not in the session list when the sync began
RECURSIVE NewForSession(_, _)
NewForSession(items, session_ids) ==
    IF items = <<>> THEN <<>>
    ELSE (IF Head(items) \in session_ids THEN <<>> ELSE <<Head(items)>>)
         \o NewForSession(Tail(items), session_ids)

\* AutoMonitor.sync_pending_spam_to_session_state (the dashboard renders)
SyncPending ==
    /\ uiPc = "idle"
    /\ ss_pending_spam' =
           ss_pending_spam \o NewForSession(pending_spam, SeqToSet(ss_pending_spam))
    /\ UNCHANGED <<engineVars, ss_auto_delete_enabled, ss_statistics, ss_monitor_logs,
                   ssVisible, poll_interval, trimmed, activityVars, deleteVars, threadVars, uiPc, historyVars>>

\* PendingSpamPage: "Mark Normal" on item i
MarkNormal ==
    /\ uiPc = "idle"
    /\ \E i \in 1..Len(ss_pending_spam) :
         /\ ss_pending_spam' = RemoveAt(ss_pending_spam, i)
         /\ resolved' = resolved \cup {ss_pending_spam[i]}
    /\ UNCHANGED <<engineVars, ss_auto_delete_enabled, ss_statistics, ss_monitor_logs,
                   ssVisible, poll_interval, trimmed, activityVars, deleteVars, threadVars, uiPc, cycles, classified, api_deletes,
                   api_deleted, lastToggle, lastCfg>>

\* PendingSpamPage: "Mark All as Normal"
MarkAllNormal ==
    /\ uiPc = "idle"
    /\ ss_pending_spam # <<>>
    /\ ss_pending_spam' = <<>>
    /\ resolved' = resolved \cup SeqToSet(ss_pending_spam)
    /\ UNCHANGED <<engineVars, ss_auto_delete_enabled, ss_statistics, ss_monitor_logs,
                   ssVisible, poll_interval, trimmed, activityVars, deleteVars, threadVars, uiPc, cycles, classified, api_deletes,
                   api_deleted, lastToggle, lastCfg>>

\* PendingSpamPage: "Delete" on item i, with _log_deletion on success
ApproveDelete ==
    /\ uiPc = "idle"
    /\ Len(ss_monitor_logs) < MaxUiDeletes
    /\ \E i \in 1..Len(ss_pending_spam), outcome \in DeleteOutcomes :
         IF outcome = "true"
         THEN /\ ss_pending_spam' = RemoveAt(ss_pending_spam, i)
              /\ ss_monitor_logs' =
                     Append(ss_monitor_logs, LogEntry("DELETED", ss_pending_spam[i]))
              /\ ss_statistics' = Inc(ss_statistics, "spam_removed")
              /\ resolved' = resolved \cup {ss_pending_spam[i]}
         ELSE UNCHANGED <<ss_pending_spam, ss_monitor_logs, ss_statistics, resolved>>
    /\ UNCHANGED <<engineVars, ss_auto_delete_enabled, ssVisible, poll_interval, trimmed, activityVars, deleteVars, threadVars, uiPc,
                   cycles, classified, api_deletes,
                   api_deleted, lastToggle, lastCfg>>

\* the engine counts and logs a new comment (_process_comment up to the call
\* of _add_log_entry), one comment after the other: the k-th entry appended
\* is the entry of comment number k
AddLogEntry ==
    /\ uiPc = "idle"
    /\ statistics.comments_processed < MaxLogAppends
    /\ statistics' = Inc(statistics, "comments_processed")
    /\ internal_logs' =
           add_log_entry(internal_logs, "NEW_COMMENT", statistics.comments_processed + 1)
    /\ UNCHANGED <<is_running, monitor_thread, auto_delete_enabled, confidence_threshold,
                   pending_spam, processed_comments, last_check, sessionVars, poll_interval, trimmed, activityVars, deleteVars,
                   threadVars, uiPc, historyVars>>

\* sync_logs_to_session_state: the session list after the sync
SyncedLogs(session, internal) ==
    IF internal = <<>> THEN session
    ELSE IF Len(internal) > LogCapacity
         THEN SubSeq(internal, Len(internal) - LogCapacity + 1, Len(internal))
    ELSE internal

\* AutoMonitor.sync_logs_to_session_state (the logs page renders)
SyncLogs ==
    /\ uiPc = "idle"
    /\ ss_monitor_logs' = SyncedLogs(ss_monitor_logs, internal_logs)
    /\ UNCHANGED <<engineVars, ss_auto_delete_enabled, ss_pending_spam, ss_statistics,
                   ssVisible, poll_interval, trimmed, activityVars, deleteVars, threadVars, uiPc, historyVars>>

\* DashboardRenderer.delete_comment: a manual deletion that succeeds
ManualDelete ==
    /\ uiPc = "idle"
    /\ ss_statistics.spam_removed < MaxManualDeletes
    /\ \E c \in {"c1"} :
         /\ ss_monitor_logs' = Append(ss_monitor_logs, LogEntry("DELETED", c))
         /\ ss_statistics' = Inc(ss_statistics, "spam_removed")
    /\ UNCHANGED <<engineVars, ss_auto_delete_enabled, ss_pending_spam, ssVisible, poll_interval, trimmed, activityVars, deleteVars,
                   threadVars, uiPc, historyVars>>

\* AutoMonitor.reset_statistics
ResetStatistics ==
    /\ uiPc = "idle"
    /\ statistics' = InitStatistics(is_running)
    /\ processed_comments' = {}
    /\ classified' = NoCalls
    /\ api_deletes' = NoCalls
    /\ api_deleted' = NoCalls
    /\ UNCHANGED <<is_running, monitor_thread, auto_delete_enabled, confidence_threshold,
                   pending_spam, internal_logs, last_check, sessionVars, poll_interval, trimmed, activityVars, deleteVars, threadVars, uiPc,
                   cycles, resolved, lastToggle, lastCfg>>

\* AutoMonitor.clear_pending_spam
ClearPending ==
    /\ uiPc = "idle"
    /\ pending_spam # <<>>
    /\ pending_spam' = <<>>
    /\ UNCHANGED <<is_running, monitor_thread, auto_delete_enabled, confidence_threshold,
                   statistics, processed_comments, internal_logs, last_check,
                   sessionVars, poll_interval, trimmed, activityVars, deleteVars, threadVars, uiPc, historyVars>>

\* ------------------------------------------------------- the specification
Loop(t) ==
    \/ BeginCycle(t)
    \/ PostsReturn(t)
    \/ CommentsReturn(t)
    \/ PredictReturn(t)
    \/ Decide(t)
    \/ DeleteReturn(t)

Consumer ==
    \/ Start
    \/ Stop
    \/ JoinReturn
    \/ UpdateConfig
    \/ ToggleSession
    \/ ToggleUpdateConfig
    \/ AddToPendingSpam
    \/ SyncPending
    \/ MarkNormal
    \/ MarkAllNormal
    \/ ApproveDelete
    \/ ResetStatistics
    \/ ClearPending
    \/ SyncLogs
    \/ ManualDelete

Next == (\E t \in Threads : Loop(t)) \/ Consumer

Spec == Init /\ [][Next]_vars

\* the engine under start(), stop() and a restart: the poll loops alone
NextRestart ==
    \/ \E t \in Threads : Loop(t)
    \/ Start
    \/ Stop
    \/ JoinReturn

SpecRestart == Init /\ [][NextRestart]_vars

\* one poll loop under configuration changes from the consumer
NextConfig ==
    \/ \E t \in Threads : Loop(t)
    \/ Start
    \/ UpdateConfig
    \/ ToggleSession
    \/ ToggleUpdateConfig
    \/ ClearPending

SpecConfig == Init /\ [][NextConfig]_vars

\* one poll loop and the operator working on the pending-spam page
NextPending ==
    \/ \E t \in Threads : Loop(t)
    \/ Start
    \/ ToggleSession
    \/ ToggleUpdateConfig
    \/ AddToPendingSpam
    \/ SyncPending
    \/ MarkNormal
    \/ MarkAllNormal
    \/ ApproveDelete

SpecPending == Init /\ [][NextPending]_vars

\* the engine's activity log under appends, and its sync to the session
NextLog ==
    \/ AddLogEntry
    \/ SyncLogs

SpecLog == Init /\ [][NextLog]_vars

\* the engine writes its first log entry
AddFirstLogEntry == internal_logs = <<>> /\ AddLogEntry

\* the session's activity log under syncs from the engine and the operator
\* deleting comments by hand, the engine having no log entry or one
NextSessionLog ==
    \/ AddFirstLogEntry
    \/ SyncLogs
    \/ ManualDelete

SpecSessionLog == Init /\ [][NextSessionLog]_vars

\* ------------------------------------------------------------------ claims

\* C1, as the specification states it: within one engine lifetime (from a
\* start() to the next, no statistics reset, no eviction) the classifier is
\* invoked at most once for every comment id.  The code does not keep it.
C1_ClassifiedAtMostOnce == \A c \in CommentIds : classified[c] <= 1

\* C2, as the specification states it: no two items of the engine's pending
\* queue share a comment id.  The code does not keep it.
C2_PendingIdsUnique ==
    \A i, j \in 1..Len(pending_spam) : i # j => pending_spam[i] # pending_spam[j]

\* C3, as the specification states it: an id the operator resolved and that is
\* gone from the consumer's pending queue does not come back to it by any
\* step, unless the comment gets a spam decision (or is added) again.  The
\* code does not keep it.
C3_ResolvedStaysGone ==
    [][\A c \in resolved :
          (c \notin SeqToSet(ss_pending_spam) /\ c \in resolved')
              => c \notin SeqToSet(ss_pending_spam')]_vars

\* C4, as the specification states it: when the classifier raises for a
\* comment, nothing is deleted or queued for it and the poll cycle does not
\* end while a later comment of the listing is unprocessed or a later post is
\* unread.  The code does not keep it.
C4_ClassifierRaiseIsolated ==
    [][\A t \in Threads :
          (pc[t] = "predict" /\ pc'[t] \notin {"predict", "decide"})
              => /\ pending_spam' = pending_spam
                 /\ api_deletes' = api_deletes
                 /\ ~(/\ pc'[t] = "sleep"
                      /\ \/ pi[t] < Len(posts[t])
                         \/ \E j \in (ci[t] + 1)..Len(comments[t]) :
                              comments[t][j].id \notin processed_comments)]_vars

\* C5, as the specification states it: when the processing of a comment ends,
\* normally or with an exception, its id is in processed_comments.  The code
\* does not keep it.
C5_ProcessedWhenDone ==
    [][\A t \in Threads :
          (/\ pc[t] \in {"predict", "decide", "delete"}
           /\ \/ pc'[t] \notin {"predict", "decide", "delete"}
              \/ ci'[t] # ci[t])
              => comments[t][ci[t]].id \in processed_comments']_vars

\* C6, as the specification states it: at no time are two poll loops inside a
\* poll cycle.  The code does not keep it.
C6_OneLoopPolls ==
    Cardinality({t \in Threads : pc[t] \in InFlight \cup {"decide"}}) <= 1

\* C7: once a toggle of the auto-delete checkbox is complete, and until the
\* next toggle or update_config call, a comment that gets a spam decision
\* takes the branch the toggle chose: delete_comment is called and nothing is
\* queued when it chose true, the comment is queued and delete_comment is not
\* called when it chose false.
C7_ToggleDecidesNextComment ==
    [][\A t \in Threads :
          (/\ pc[t] = "decide"
           /\ pc'[t] # "decide"
           /\ IsSpamDecision(prediction[t], confidence_threshold)
           /\ lastToggle # None
           /\ uiPc = "idle")
              => LET c == comments[t][ci[t]].id IN
                 IF lastToggle[1]
                 THEN /\ pc'[t] = "delete"
                      /\ api_deletes'[c] = api_deletes[c] + 1
                      /\ pending_spam' = pending_spam
                 ELSE /\ pc'[t] # "delete"
                      /\ api_deletes' = api_deletes
                      /\ pending_spam' = Append(pending_spam, c)]_vars

\* C7 witness: a toggle to false is complete and a comment with a spam
\* decision is at the branch
C7_Witness ==
    \E t \in Threads :
        /\ pc[t] = "decide"
        /\ IsSpamDecision(prediction[t], confidence_threshold)
        /\ lastToggle = Some(FALSE)
        /\ uiPc = "idle"
        /\ ci[t] > 1

\* C8, as the specification states it: after update_config(auto_delete_enabled=v)
\* every comment with a spam decision is deleted when v is true and queued
\* when v is false, whatever the session flag holds.
C8_ConfigDecidesAlways ==
    [][\A t \in Threads :
          (/\ pc[t] = "decide"
           /\ pc'[t] # "decide"
           /\ IsSpamDecision(prediction[t], confidence_threshold)
           /\ lastCfg # None)
              => ((pc'[t] = "delete") <=> lastCfg[1])]_vars

\* C8, amended: after update_config(auto_delete_enabled=v), a comment with a
\* spam decision takes the branch v chose when the loop thread cannot read
\* the session flag; when it can, the session flag at the decision chooses
\* the branch, whatever v is.
C8_ConfigDecidesUnlessSession ==
    [][\A t \in Threads :
          (/\ pc[t] = "decide"
           /\ pc'[t] # "decide"
           /\ IsSpamDecision(prediction[t], confidence_threshold)
           /\ lastCfg # None)
              => LET c == comments[t][ci[t]].id
                     branch == IF ssVisible THEN ss_auto_delete_enabled ELSE lastCfg[1]
                 IN IF branch
                    THEN /\ pc'[t] = "delete"
                         /\ api_deletes'[c] = api_deletes[c] + 1
                         /\ pending_spam' = pending_spam
                    ELSE /\ pc'[t] # "delete"
                         /\ api_deletes' = api_deletes
                         /\ pending_spam' = Append(pending_spam, c)]_vars

\* C8 witness: update_config(auto_delete_enabled=False) has returned, the
\* session flag holds true, and a comment with a spam decision is at the branch
C8_Witness ==
    \E t \in Threads :
        /\ pc[t] = "decide"
        /\ IsSpamDecision(prediction[t], confidence_threshold)
        /\ lastCfg = Some(FALSE)
        /\ ss_auto_delete_enabled
        /\ uiPc = "idle"

\* C9: a verdict is a spam decision (spam_detected grows by one) exactly when
\* is_spam holds and the confidence is strictly above the threshold; any
\* other verdict leaves spam_detected alone.
C9_StrictThreshold ==
    [][\A t \in Threads :
          (pc[t] = "decide" /\ pc'[t] # "decide")
              => IF prediction[t].is_spam /\ prediction[t].confidence > confidence_threshold
                 THEN statistics'.spam_detected = statistics.spam_detected + 1
                 ELSE /\ statistics'.spam_detected = statistics.spam_detected
                      /\ pending_spam' = pending_spam
                      /\ api_deletes' = api_deletes]_vars

\* C9 witness: a spam decision has been made and a verdict with is_spam and a
\* confidence equal to the threshold is at the decision
C9_Witness ==
    /\ statistics.spam_detected > 0
    /\ \E t \in Threads :
         /\ pc[t] = "decide"
         /\ prediction[t].is_spam
         /\ prediction[t].confidence = confidence_threshold

\* C10: when delete_comment succeeds for a comment on the auto-delete
\* branch, it was the one call for that id, spam_removed grows by one, the log
\* gains one DELETED entry for the id, and nothing is queued; the branch
\* itself makes one delete_comment call and queues nothing.
C10_DeleteSucceeds ==
    [][\A t \in Threads :
          LET c == comments[t][ci[t]].id
              Deleted(logs) == Cardinality({i \in 1..Len(logs) :
                                               logs[i] = LogEntry("DELETED", c)})
          IN /\ (pc[t] = "decide" /\ pc'[t] = "delete")
                    => /\ api_deletes'[c] = api_deletes[c] + 1
                       /\ pending_spam' = pending_spam
                       /\ ss_pending_spam' = ss_pending_spam
             /\ (pc[t] = "delete" /\ api_deleted'[c] = api_deleted[c] + 1)
                    => /\ api_deletes[c] = 1
                       /\ api_deletes' = api_deletes
                       /\ statistics'.spam_removed = statistics.spam_removed + 1
                       /\ Deleted(internal_logs') = Deleted(internal_logs) + 1
                       /\ pending_spam' = pending_spam
                       /\ ss_pending_spam' = ss_pending_spam]_vars

\* C10 witness: a comment was deleted on the auto-delete branch
C10_Witness ==
    \E c \in CommentIds :
        /\ api_deleted[c] = 1
        /\ api_deletes[c] = 1
        /\ statistics.spam_removed = 1
        /\ \E i \in 1..Len(internal_logs) : internal_logs[i] = LogEntry("DELETED", c)
        /\ c \notin SeqToSet(pending_spam)

\* C11, as the specification states it: when a comment gets a spam decision
\* while auto-delete is disabled, delete_comment is not called for it, the
\* log gains one PENDING_SPAM entry for it, and the pending queue afterwards
\* holds exactly one item with its id.  The code does not keep it.
C11_PendingBranchOneItem ==
    [][\A t \in Threads :
          (/\ pc[t] = "decide"
           /\ pc'[t] # "decide"
           /\ IsSpamDecision(prediction[t], confidence_threshold)
           /\ ~CurrentAutoDelete(auto_delete_enabled, ss_auto_delete_enabled, ssVisible))
              => LET c == comments[t][ci[t]].id
                     Queued(logs) == Cardinality({i \in 1..Len(logs) :
                                                     logs[i] = LogEntry("PENDING_SPAM", c)})
                 IN /\ api_deletes' = api_deletes
                    /\ Queued(internal_logs') = Queued(internal_logs) + 1
                    /\ Cardinality({i \in 1..Len(pending_spam') :
                                       pending_spam'[i] = c}) = 1]_vars

\* C12: a verdict that is not a spam decision (is_spam false, or a confidence
\* not above the threshold) causes no delete_comment call, no pending item,
\* no change of spam_detected or spam_removed, and no log entry for the
\* comment beyond its NEW_COMMENT entry: the log is left alone, or gains the
\* NEW_COMMENT entry of the next comment the cycle goes on with.
C12_NotSpamFrame ==
    [][\A t \in Threads :
          (/\ pc[t] = "decide"
           /\ pc'[t] # "decide"
           /\ ~(prediction[t].is_spam /\ prediction[t].confidence > confidence_threshold))
              => LET c == comments[t][ci[t]].id IN
                 /\ api_deletes' = api_deletes
                 /\ pc'[t] # "delete"
                 /\ pending_spam' = pending_spam
                 /\ ss_pending_spam' = ss_pending_spam
                 /\ statistics'.spam_detected = statistics.spam_detected
                 /\ statistics'.spam_removed = statistics.spam_removed
                 /\ \E i \in 1..Len(internal_logs) :
                        internal_logs[i] = LogEntry("NEW_COMMENT", c)
                 /\ \/ internal_logs' = internal_logs
                    \/ /\ pc'[t] = "predict"
                       /\ comments'[t][ci'[t]].id # c
                       /\ internal_logs' =
                              Append(internal_logs,
                                     LogEntry("NEW_COMMENT", comments'[t][ci'[t]].id))]_vars

\* C12 witness: a verdict with is_spam and a confidence below the threshold
\* is at the decision
C12_Witness ==
    \E t \in Threads :
        /\ pc[t] = "decide"
        /\ prediction[t].is_spam
        /\ prediction[t].confidence = 1
        /\ confidence_threshold = 2

\* C13: a poll cycle that ends because get_recent_posts or get_post_comments
\* raised increases errors by exactly 1 and leaves is_running as it is and
\* the loop alive, asleep before its next cycle; errors never changes in any
\* other way than by 1 at a poll cycle ended by an exception, so n failing
\* cycles in a row add exactly n.
C13_FailedCycleCountedOnce ==
    [][/\ \A t \in Threads :
            (/\ pc[t] \in {"posts", "comments"}
             /\ pc'[t] = "sleep"
             /\ last_check' = last_check)
                => /\ statistics'.errors = statistics.errors + 1
                   /\ is_running' = is_running
                   /\ Alive(t)'
       /\ statistics'.errors # statistics.errors
            => /\ statistics'.errors = statistics.errors + 1
               /\ \E t \in Threads :
                    pc[t] \in {"posts", "comments", "predict"} /\ pc'[t] = "sleep"]_vars

\* C13 witness: two poll cycles in a row failed in a listing call (no
\* comment was classified), errors is 2, the engine is running and the loop
\* is alive
C13_Witness ==
    /\ statistics.errors = 2
    /\ cycles = 2
    /\ last_check = Never
    /\ \A c \in CommentIds : classified[c] = 0
    /\ is_running
    /\ \E t \in Threads : pc[t] = "sleep"

\* C14, as the specification states it: once stop() has cleared is_running
\* during a poll cycle, the loop lets the call in flight return and then
\* issues no further listing, classifier or delete call for that cycle.  The
\* code does not keep it.
C14_StopEndsCycle ==
    [][\A t \in Threads :
          (/\ ~is_running
           /\ pc[t] \in InFlight \cup {"decide"}
           /\ pc'[t] # pc[t])
              => pc'[t] \notin InFlight]_vars

\* start() on an engine that was never started
StartFirst == monitor_thread = NoThread /\ Start

\* one poll loop that is started once and stopped, no start() following
NextStop ==
    \/ \E t \in Threads : Loop(t)
    \/ StartFirst
    \/ Stop
    \/ JoinReturn

\* fair scheduling: a loop thread that can take a step (its call returns, its
\* sleep tick ends) eventually takes one
SpecStopFair == Init /\ [][NextStop]_vars /\ \A t \in Threads : WF_vars(Loop(t))

\* C15: a loop that ends a sleep tick while is_running is false exits without
\* beginning another poll cycle; and under fair scheduling, with collaborator
\* calls that return, a loop that is alive after a stop() that no start()
\* follows terminates.
C15_StopObserved ==
    /\ [][\A t \in Threads :
            (pc[t] = "sleep" /\ ~is_running /\ pc'[t] # pc[t])
                => (pc'[t] = "dead" /\ cycles' = cycles)]_vars
    /\ \A t \in Threads : (Alive(t) /\ ~is_running) ~> ~Alive(t)

\* C15 witness: stop() has returned, no start() followed, and the loop has
\* ended after its first poll cycle without beginning a second
C15_Witness ==
    /\ ~is_running
    /\ uiPc = "idle"
    /\ cycles = 1
    /\ last_check = 1
    /\ \E t \in Threads : pc[t] = "dead" /\ \A u \in Threads \ {t} : pc[u] = "idle"

\* C16, as the specification states it: when delete_comment reports failure
\* (returns false or raises) for a comment on the auto-delete branch, errors
\* grows by exactly 1 and spam_removed is unchanged.  The code does not keep it.
C16_FailedDeleteCounted ==
    [][\A t \in Threads :
          (/\ pc[t] = "delete"
           /\ pc'[t] # "delete"
           /\ api_deleted' = api_deleted)
              => /\ statistics'.errors = statistics.errors + 1
                 /\ statistics'.spam_removed = statistics.spam_removed]_vars

\* C17, as the specification states it: within one engine lifetime
\* delete_comment is called at most once for every comment id, so a failed
\* auto-delete is never tried again.  The code does not keep it.
C17_DeleteCalledAtMostOnce == \A c \in CommentIds : api_deletes[c] <= 1

\* C18, as the specification states it: every step that counts a failure in
\* errors also appends an ERROR entry to the activity log.  The code does not
\* keep it.
C18_ErrorsAreLogged ==
    [][statistics'.errors > statistics.errors
          => /\ Len(internal_logs') = Len(internal_logs) + 1
             /\ internal_logs'[Len(internal_logs')].action = "ERROR"]_vars

\* C19: after n appends to the engine's activity log (the k-th being the
\* entry of comment number k), the log holds min(n, 100) entries, at most
\* 100, and they are the entries n - min(n, 100) + 1 .. n in append order.
C19_EngineLogKeepsLast100 ==
    LET len == Len(internal_logs)
        n == statistics.comments_processed
    IN /\ len <= 100
       /\ len = IF n < 100 THEN n ELSE 100
       /\ \A i \in 1..len : internal_logs[i] = LogEntry("NEW_COMMENT", n - len + i)

\* C19 witness: 150 entries were appended and the log holds entries 51..150
C19_Witness ==
    /\ statistics.comments_processed = 150
    /\ Len(internal_logs) = 100
    /\ internal_logs[1].comment_id = 51
    /\ internal_logs[100].comment_id = 150

\* C20, as the specification states it: the session's monitor_logs list never
\* holds more than 100 entries.  The code does not keep it.
C20_SessionLogAtMost100 == Len(ss_monitor_logs) <= 100

\* ------------------------------------------------- the processed-comment set

\* the largest number of a comment the harness below hands to the engine
MaxDedupIds == 1002

\* the 200 members of a set S of numbers that follow each other from its
\* member a on, a having at least 199 members after it
RunFrom(S, a) ==
    LET b == CHOOSE y \in S :
                 /\ y >= a + DedupEvict - 1
                 /\ Cardinality({x \in S : a <= x /\ x <= y}) = DedupEvict
    IN  {x \in S : a <= x /\ x <= b}

\* list(self.processed_comments)[:200] on a set of numbered comments: the
\* order of a Python set follows the hashes of its members, so any 200
\* members can come first.  Of all these the model draws the runs of 200
\* members that are consecutive in the order of insertion: the 200 oldest, the
\* 200 newest (with the id just added) and every run between them.
EvictionRuns(S) ==
    IF DedupFull(S)
    THEN {RunFrom(S, a) : a \in {a \in S : Cardinality({x \in S : x >= a}) >= DedupEvict}}
    ELSE {{}}

\* self.processed_comments.add(c) and the eviction, for numbered comments
AfterAddNumbered(S, c) == {(S \cup {c}) \ ev : ev \in EvictionRuns(S \cup {c})}

\* a comment the engine has not seen before: comments are numbered as they
\* arrive
NewCommentId == IF processed_comments = {} THEN 1
                ELSE 1 + CHOOSE m \in processed_comments :
                             /\ (m + 1) \notin processed_comments
                             /\ \A x \in processed_comments : x <= m

\* the body of the comment loop of _check_for_new_comments for a comment not
\* seen before whose message is blank: _process_comment returns at once, the
\* id is added to processed_comments and the set is cut when it is over its
\* capacity
ProcessBlankComment ==
    /\ uiPc = "idle"
    /\ NewCommentId <= MaxDedupIds
    /\ processed_comments' \in AfterAddNumbered(processed_comments, NewCommentId)
    /\ UNCHANGED <<is_running, monitor_thread, auto_delete_enabled, confidence_threshold,
                   pending_spam, statistics, internal_logs, last_check, sessionVars, poll_interval, trimmed, activityVars, deleteVars,
                   threadVars, uiPc, historyVars>>

\* the processed-comment set under new comments, start() and reset_statistics()
NextDedup ==
    \/ ProcessBlankComment
    \/ Start
    \/ ResetStatistics

SpecDedup == Init /\ [][NextDedup]_vars

\* C21: at the end of every comment-processing step the processed-comment set
\* holds at most 1000 ids; ids leave the set only in a step that adds the
\* 1001st id, which removes exactly 200 of them, or by start() or
\* reset_statistics(), which empty it.
C21_DedupCapAndEviction ==
    /\ [](Cardinality(processed_comments) <= DedupCapacity)
    /\ [][LET gone == processed_comments \ processed_comments' IN
          gone # {} =>
            \/ /\ Cardinality(processed_comments) = DedupCapacity
               /\ Cardinality((processed_comments \cup {NewCommentId}) \ processed_comments')
                      = DedupEvict
               /\ processed_comments' \subseteq processed_comments \cup {NewCommentId}
            \/ processed_comments' = {}]_vars

\* the set has been cut: the 1001st comment is in it and 200 others are gone
C21_Witness ==
    /\ Cardinality(processed_comments) = DedupCapacity + 1 - DedupEvict
    /\ (DedupCapacity + 1) \in processed_comments

\* C22, as the specification states it: when the processed-comment set is cut,
\* the 200 ids removed are the 200 inserted earliest: every id that stays was
\* inserted after every id removed, and the id just inserted stays.  Comments
\* are numbered as they arrive, so the order of the numbers in the set is the
\* order of insertion.  The code does not keep it: list(set)[:200] takes the
\* ids in the order of the set's hash table.
C22_EvictsOldest ==
    [][LET gone == (processed_comments \cup {NewCommentId}) \ processed_comments' IN
       (gone # {} /\ processed_comments' # {}) =>
           /\ NewCommentId \notin gone
           /\ \A g \in gone : \A k \in processed_comments' : g < k]_vars

\* C23, as the specification states it: while the engine is running and no
\* reset is requested, no counter of the statistics the consumer reads
\* (st.session_state.statistics) decreases from one step to the next, whatever
\* the interleaving of the engine's publishes and the consumer's own updates.
\* The code does not keep it: the publish at the end of a poll cycle overwrites
\* the deletions the consumer has counted.
C23_SessionCountersNeverDecrease ==
    [][(is_running /\ is_running') =>
           /\ ss_statistics'.comments_processed >= ss_statistics.comments_processed
           /\ ss_statistics'.spam_detected >= ss_statistics.spam_detected
           /\ ss_statistics'.spam_removed >= ss_statistics.spam_removed
           /\ ss_statistics'.errors >= ss_statistics.errors]_vars

\* ------------------------------------------------------ invalid thresholds

\* thresholds outside the range of a confidence: a negative one, and one above
\* the largest confidence
InvalidThresholds == {-1, ConfMax + 1}

\* update_config called on the engine directly with a confidence_threshold
\* that is out of range
UpdateConfigInvalid ==
    /\ uiPc = "idle"
    /\ \E ad \in {None} \cup {Some(b) : b \in BOOLEAN},
          th \in {Some(x) : x \in InvalidThresholds} :
         /\ update_config(ad, th)
         /\ lastToggle' = IF ad # None THEN None ELSE lastToggle
    /\ UNCHANGED <<is_running, monitor_thread, pending_spam, statistics,
                   processed_comments, internal_logs, last_check, sessionVars, poll_interval, trimmed, activityVars, deleteVars,
                   threadVars, uiPc, cycles, classified, api_deletes, api_deleted, resolved>>

\* one poll loop under update_config calls with any threshold
NextThreshold ==
    \/ \E t \in Threads : Loop(t)
    \/ StartFirst
    \/ UpdateConfig
    \/ UpdateConfigInvalid

SpecThreshold == Init /\ [][NextThreshold]_vars

\* C24, as the specification states it: update_config with a threshold that is
\* negative or above the largest confidence is rejected, so the threshold of
\* the engine, which every spam decision uses, is always a confidence.  The
\* code does not keep it: update_config stores whatever it is given.
C24_ThresholdAlwaysValid == confidence_threshold \in Confidences

\* C25: start() on a running engine and stop() on a stopped engine change
\* nothing: the running flag, the processed-comment set, the statistics with
\* start_time, the activity log, the pending queue and the poll loops are as
\* they were.
C25_StartStopNoOp ==
    [][/\ (is_running /\ Start) =>
              UNCHANGED <<is_running, processed_comments, statistics, internal_logs,
                          pending_spam, monitor_thread, pc>>
       /\ (~is_running /\ Stop) =>
              UNCHANGED <<is_running, processed_comments, statistics, internal_logs,
                          pending_spam, monitor_thread, pc>>]_vars

\* an engine on which start() is a second start: it runs, it has processed a
\* comment and remembers it, and the consumer is not inside another call
C25_Witness ==
    /\ is_running
    /\ uiPc = "idle"
    /\ processed_comments # {}
    /\ statistics.comments_processed > 0
    /\ internal_logs # <<>>

\* C26: a newly constructed engine reports stopped with all counters at 0;
\* start() on a stopped engine leaves it running with an empty
\* processed-comment set, start_time set and one more poll loop, which is
\* the engine's monitor thread; stop() on a running engine leaves it
\* reporting stopped.
C26_StartThenStop ==
    /\ (~is_running /\ statistics = InitStatistics(FALSE))
    /\ [][/\ (~is_running /\ Start) =>
                 /\ is_running'
                 /\ processed_comments' = {}
                 /\ statistics'.start_time
                 /\ \E t \in Threads :
                      /\ ~Alive(t)
                      /\ monitor_thread' = t
                      /\ {u \in Threads : pc'[u] \notin {"idle", "dead"}}
                             = {u \in Threads : Alive(u)} \cup {t}
          /\ (is_running /\ Stop) => ~is_running']_vars

\* the engine has been started again after it had processed a comment: it
\* runs, its new loop has not polled yet and nothing is remembered
C26_Witness ==
    /\ is_running
    /\ monitor_thread = MaxThreads
    /\ pc[monitor_thread] = "sleep"
    /\ processed_comments = {}
    /\ statistics.start_time
    /\ statistics.comments_processed > 0

\* C27, as the specification states it: start_time is set exactly while the
\* engine is running: whenever the engine reports stopped, the start_time
\* that get_statistics returns is unset.  The code does not keep it: stop()
\* leaves start_time as start() set it.
C27_StartTimeClearedWhenStopped == ~is_running => ~statistics.start_time

\* ------------------------------------------- FacebookAPI.delete_comment

\* the largest retry_count a caller passes
MaxRetryCount == 4

\* retry_count when the caller passes none
DefaultRetryCount == 3

\* what one request of delete_comment can meet, by the branch of the code
\* that handles it: HTTP 200 with a JSON object without an error whose
\* success is true or absent, HTTP 200 with success false, HTTP 200 with a
\* body that is not JSON, HTTP 200 with an error object of code 10, of code
\* 100, of another code, HTTP 200 with JSON the code cannot read (the lookup
\* raises), HTTP 403, HTTP 404, HTTP 429, another HTTP status (whatever the
\* body), a requests.exceptions.RequestException, another exception
Responses ==
    {"ok_success", "ok_unsuccessful", "ok_not_json", "ok_error_10", "ok_error_100",
     "ok_error_other", "ok_malformed", "forbidden", "not_found", "rate_limited",
     "http_other", "network_error", "unexpected_error"}

\* the answers on which delete_comment returns True
Succeeds(r) == r \in {"ok_success", "ok_not_json", "not_found"}

\* the answers whose branch ends in "if attempt < retry_count - 1: ... continue"
RetriedOrForbidden(r) ==
    r \in {"ok_error_other", "rate_limited", "http_other", "network_error", "forbidden"}
Retried(r) == r \in {"ok_error_other", "rate_limited", "http_other", "network_error"}

\* attempt < retry_count - 1
MayRetry(a, n) == a < n - 1

\* for attempt in range(retry_count): the loop body runs for attempt a
InRangeInclusive(a, n) == a <= n
InRange(a, n) == a < n

\* delete_comment is called: the first request is sent, or the loop is empty
\* and False is returned
DeleteCommentCall ==
    /\ dcPc = "idle"
    /\ \E n \in 0..MaxRetryCount \cup {DefaultRetryCount} :
         /\ retry_count' = n
         /\ attempt' = 0
         /\ responses' = <<>>
         /\ IF InRange(0, n)
            THEN dcPc' = "request" /\ returned' = "none"
            ELSE dcPc' = "done" /\ returned' = "false"
    /\ UNCHANGED <<engineVars, sessionVars, poll_interval, trimmed, activityVars, threadVars, uiPc, historyVars>>

\* the request of the current attempt is answered: delete_comment returns,
\* or sleeps and sends the request of the next attempt
DeleteCommentResponse ==
    /\ dcPc = "request"
    /\ \E r \in Responses :
         /\ responses' = Append(responses, r)
         /\ IF Succeeds(r)
            THEN dcPc' = "done" /\ returned' = "true" /\ UNCHANGED attempt
            ELSE IF Retried(r) /\ MayRetry(attempt, retry_count)
            THEN /\ attempt' = attempt + 1
                 /\ IF InRange(attempt + 1, retry_count)
                    THEN dcPc' = "request" /\ returned' = "none"
                    ELSE dcPc' = "done" /\ returned' = "false"
            ELSE dcPc' = "done" /\ returned' = "false" /\ UNCHANGED attempt
    /\ UNCHANGED <<engineVars, sessionVars, poll_interval, trimmed, activityVars, threadVars, uiPc, historyVars, retry_count>>

\* the caller has the value returned
DeleteCommentReturn ==
    /\ dcPc = "done"
    /\ dcPc' = "idle"
    /\ retry_count' = 0
    /\ attempt' = 0
    /\ responses' = <<>>
    /\ returned' = "none"
    /\ UNCHANGED <<engineVars, sessionVars, poll_interval, trimmed, activityVars, threadVars, uiPc, historyVars>>

\* calls of delete_comment, one after the other
NextDelete ==
    \/ DeleteCommentCall
    \/ DeleteCommentResponse
    \/ DeleteCommentReturn

SpecDelete == Init /\ [][NextDelete]_vars

\* the transient outcomes: rate limit, network error, another HTTP status,
\* another API error
TransientOutcomes == {"rate_limited", "network_error", "http_other", "ok_error_other"}

\* the requests one call of delete_comment has sent so far
Requests == Len(responses) + (IF dcPc = "request" THEN 1 ELSE 0)

\* C28: one call of delete_comment sends at most retry_count requests; every
\* answer followed by another request was a transient outcome; when the
\* last request the budget allows meets a transient outcome the call returns
\* False; and once the call is over it has returned True or False.
C28_BoundedRetries ==
    /\ Requests <= retry_count
    /\ \A i \in 1..(Requests - 1) : responses[i] \in TransientOutcomes
    /\ (/\ Len(responses) = retry_count
        /\ retry_count > 0
        /\ responses[retry_count] \in TransientOutcomes) =>
           (dcPc = "done" /\ returned = "false")
    /\ dcPc = "done" => returned \in {"true", "false"}
    /\ dcPc = "request" => returned = "none"

\* a call with the default budget met a transient outcome three times and
\* returned False
C28_Witness ==
    /\ dcPc = "done"
    /\ retry_count = DefaultRetryCount
    /\ Len(responses) = DefaultRetryCount
    /\ \A i \in 1..Len(responses) : responses[i] \in TransientOutcomes
    /\ returned = "false"

\* C29: an answer of not-found ends the call with True, and a permission
\* denial (HTTP 403, or an API error of code 10 or 100) ends it with False:
\* no request follows either of them.
C29_NotFoundAndDenialEndTheCall ==
    \A i \in 1..Len(responses) :
        /\ responses[i] = "not_found" =>
               (i = Len(responses) /\ dcPc = "done" /\ returned = "true")
        /\ responses[i] \in {"forbidden", "ok_error_10", "ok_error_100"} =>
               (i = Len(responses) /\ dcPc = "done" /\ returned = "false")

\* a call was rate-limited once, asked again and was told the comment is gone
C29_Witness ==
    /\ dcPc = "done"
    /\ responses = <<"rate_limited", "not_found">>
    /\ returned = "true"

\* C30: a comment whose message is blank is skipped.  The classifier is never
\* called on a blank message; and when the comment loop passes blank comments
\* it has not seen on its way to the next comment to classify, their ids are
\* in the processed-comment set afterwards, no classifier call, delete call
\* or pending item is theirs, and the statistics and the log change by the
\* count and the NEW_COMMENT entry of the comment taken up and by nothing
\* else.
C30_BlankCommentSkipped ==
    /\ [](\A t \in Threads : pc[t] = "predict" => comments[t][ci[t]].message # " ")
    /\ [][\A t \in Threads :
            (/\ pc[t] = "comments"
             /\ pc'[t] = "predict"
             /\ \E j \in 1..(ci'[t] - 1) :
                  /\ comments'[t][j].message = " "
                  /\ comments'[t][j].id \notin processed_comments) =>
                /\ \A j \in 1..(ci'[t] - 1) :
                     (/\ comments'[t][j].message = " "
                      /\ comments'[t][j].id \notin processed_comments) =>
                         /\ comments'[t][j].id \in processed_comments'
                         /\ classified'[comments'[t][j].id] = classified[comments'[t][j].id]
                         /\ api_deletes'[comments'[t][j].id] = api_deletes[comments'[t][j].id]
                /\ pending_spam' = pending_spam
                /\ ss_pending_spam' = ss_pending_spam
                /\ statistics' = [statistics EXCEPT !.comments_processed = @ + 1]
                /\ internal_logs' =
                       add_log_entry(internal_logs, "NEW_COMMENT",
                                     comments'[t][ci'[t]].id)]_vars

\* the loop has passed a blank comment: it is about to classify the comment
\* after it, the blank one is marked processed and was never classified
C30_Witness ==
    \E t \in Threads :
        /\ pc[t] = "predict"
        /\ ci[t] = 2
        /\ comments[t][1].message = " "
        /\ comments[t][1].id \in processed_comments
        /\ classified[comments[t][1].id] = 0
        /\ statistics.comments_processed = 1

\* the NEW_COMMENT entries of a log, in the order of the log
NewCommentEntries(logs) == SelectSeq(logs, LAMBDA e : e.action = "NEW_COMMENT")

\* C31: within a poll cycle comments are processed in listing order.  When
\* the loop takes up a comment, it is a later comment of the listing it is
\* in, or a comment of the listing just fetched for the same post; every
\* comment before it in the listing is in the processed-comment set; and its
\* NEW_COMMENT entry is the last of the log, after those of the comments
\* taken up before (the log being below its capacity).  When the loop asks
\* for the comments of a post, it is the post after the one it was in, and
\* every comment of the listing it leaves is in the processed-comment set.
C31_ListingOrder ==
    [][\A t \in Threads :
         /\ (pc[t] # "predict" /\ pc'[t] = "predict") =>
               /\ pi'[t] = pi[t]
               /\ \/ pc[t] = "comments"
                  \/ comments'[t] = comments[t] /\ ci'[t] > ci[t]
               /\ \A j \in 1..(ci'[t] - 1) : comments'[t][j].id \in processed_comments'
               /\ Len(internal_logs') < LogCapacity =>
                      NewCommentEntries(internal_logs') =
                          Append(NewCommentEntries(internal_logs),
                                 LogEntry("NEW_COMMENT", comments'[t][ci'[t]].id))
               /\ internal_logs'[Len(internal_logs')] =
                      LogEntry("NEW_COMMENT", comments'[t][ci'[t]].id)
         /\ (/\ pc[t] \in {"comments", "decide", "delete"}
             /\ pc'[t] = "comments"
             /\ pi'[t] # pi[t]) =>
               /\ pi'[t] = pi[t] + 1
               /\ posts'[t] = posts[t]
               /\ \A j \in 1..Len(comments[t]) : comments[t][j].id \in processed_comments']_vars

\* the loop has processed the first comment of a listing and takes up the
\* second: their NEW_COMMENT entries are in the log in that order
C31_Witness ==
    \E t \in Threads :
        /\ pc[t] = "predict"
        /\ ci[t] = 2
        /\ comments[t][1].message # " "
        /\ comments[t][1].id \in processed_comments
        /\ NewCommentEntries(internal_logs) =
               <<LogEntry("NEW_COMMENT", comments[t][1].id),
                 LogEntry("NEW_COMMENT", comments[t][2].id)>>

\* C32, as the specification states it: after clear_pending_spam() the
\* pending queue is empty: the engine's list is empty and the list the
\* consumer sees (st.session_state.pending_spam) holds no item that was
\* pending before the clear.  The code does not keep it: the clear empties
\* the engine's list only.
C32_ClearEmptiesQueue ==
    [][(pending_spam # <<>> /\ pending_spam' = <<>>) =>
           SeqToSet(ss_pending_spam') \cap SeqToSet(pending_spam) = {}]_vars

\* C33: a newly constructed engine has auto-delete enabled and the default
\* threshold; update_config changes the fields it is passed and no other:
\* after the call each of auto_delete_enabled and confidence_threshold is the
\* value passed, or what it was when none was passed, poll_interval is what
\* it was, and a call that passes nothing leaves the engine as it was.
C33_UpdateConfigFrame ==
    /\ (auto_delete_enabled = TRUE /\ confidence_threshold = DefaultThreshold)
    /\ [][\A ad \in AutoDeleteArgs, th \in ThresholdArgs :
            UpdateConfigCall(ad, th) =>
                /\ auto_delete_enabled' = IF ad = None THEN auto_delete_enabled ELSE ad[1]
                /\ confidence_threshold' = IF th = None THEN confidence_threshold ELSE th[1]
                /\ poll_interval' = poll_interval
                /\ (ad = None /\ th = None) => UNCHANGED engineVars]_vars

\* update_config was called with one field at a time: auto-delete is off as
\* the last call that passed it said, and the threshold is the largest
\* confidence, which differs from the default
C33_Witness ==
    /\ lastCfg = Some(FALSE)
    /\ auto_delete_enabled = FALSE
    /\ confidence_threshold = ConfMax
    /\ poll_interval = DefaultPollInterval

\* C34, as the specification states it: a poll cycle in which
\* get_recent_posts fails still ends like any other: before the loop sleeps,
\* last_check is the time of this cycle and the statistics, with the error
\* counted, are published to the session.  The code does not keep it: the
\* exception skips the rest of the cycle.
C34_FailedCycleStillPublishes ==
    [][\A t \in Threads :
         (/\ pc[t] = "posts"
          /\ pc'[t] = "sleep"
          /\ statistics'.errors = statistics.errors + 1) =>
             /\ last_check' = Now
             /\ ssVisible => ss_statistics'.errors = statistics'.errors]_vars

\* --------------------------------------------- the log cleared by the consumer

\* _add_log_entry up to the read of self.internal_logs[-100:]: the entry of
\* the next comment is appended; when the list is over its capacity, the
\* slice of its last 100 entries is taken
AppendLogEntry ==
    /\ trimmed = None
    /\ statistics.comments_processed < MaxLogAppends
    /\ statistics' = Inc(statistics, "comments_processed")
    /\ LET appended == Append(internal_logs,
                              LogEntry("NEW_COMMENT", statistics.comments_processed + 1))
       IN /\ internal_logs' = appended
          /\ trimmed' = IF Len(appended) > LogCapacity
                        THEN Some(SubSeq(appended, Len(appended) - LogCapacity + 1,
                                         Len(appended)))
                        ELSE None
    /\ UNCHANGED <<is_running, monitor_thread, auto_delete_enabled, confidence_threshold,
                   pending_spam, processed_comments, last_check, sessionVars,
                   poll_interval, activityVars, deleteVars, threadVars, uiPc, historyVars>>

\* _add_log_entry: self.internal_logs = (the slice taken)
StoreTrimmed ==
    /\ trimmed # None
    /\ internal_logs' = trimmed[1]
    /\ trimmed' = None
    /\ UNCHANGED <<is_running, monitor_thread, auto_delete_enabled, confidence_threshold,
                   pending_spam, statistics, processed_comments, last_check, sessionVars,
                   poll_interval, activityVars, deleteVars, threadVars, uiPc, historyVars>>

\* LogsPage, "Clear Logs": st.session_state.monitor_logs = [] and
\* auto_monitor.internal_logs = []
ClearLogs ==
    /\ uiPc = "idle"
    /\ ss_monitor_logs' = <<>>
    /\ internal_logs' = <<>>
    /\ UNCHANGED <<is_running, monitor_thread, auto_delete_enabled, confidence_threshold,
                   pending_spam, statistics, processed_comments, last_check,
                   ss_auto_delete_enabled, ss_pending_spam, ss_statistics, ssVisible,
                   poll_interval, trimmed, activityVars, deleteVars, threadVars, uiPc, historyVars>>

\* the engine's log under appends by the loop and clears by the consumer
NextLogClear ==
    \/ AppendLogEntry
    \/ StoreTrimmed
    \/ ClearLogs

SpecLogClear == Init /\ [][NextLogClear]_vars

\* C35, as the specification states it: a clear of the activity log is atomic
\* with respect to an append by the poll loop: when the append completes, the
\* log holds no entry that was not in it just before, so no entry the clear
\* removed is present again.  The code does not keep it: the append that cuts
\* the log writes back a slice it took before the clear.
C35_ClearIsAtomic ==
    [][(trimmed # None /\ trimmed' = None) =>
           SeqToSet(internal_logs') \subseteq SeqToSet(internal_logs)]_vars

\* one poll loop under reset_statistics calls from the consumer
NextReset ==
    \/ \E t \in Threads : Loop(t)
    \/ StartFirst
    \/ ResetStatistics

SpecReset == Init /\ [][NextReset]_vars

\* C36, as the specification states it: in every state of the engine
\* spam_removed <= spam_detected <= comments_processed, also when
\* reset_statistics is called while the loop is processing a comment.  The
\* code does not keep it: the reset zeroes the counters between two updates
\* that belong to one comment.
C36_CountersOrdered ==
    /\ statistics.spam_removed <= statistics.spam_detected
    /\ statistics.spam_detected <= statistics.comments_processed

\* C37: the loop calls delete_comment only from the processing of a comment
\* whose verdict is a spam decision and for which the auto-delete flag was
\* read as true at the decision, and a processing that calls delete_comment
\* adds no pending item, neither at the decision nor when the call returns;
\* a processing that adds a pending item calls no delete_comment.
C37_DeleteOnlyForSpamWithAutoDelete ==
    [][/\ \A c \in CommentIds :
            api_deletes'[c] > api_deletes[c] =>
                \E t \in Threads :
                    /\ pc[t] = "decide"
                    /\ comments[t][ci[t]].id = c
                    /\ prediction[t].is_spam
                    /\ prediction[t].confidence > confidence_threshold
                    /\ IF ssVisible THEN ss_auto_delete_enabled ELSE auto_delete_enabled
                    /\ pc'[t] = "delete"
                    /\ pending_spam' = pending_spam
                    /\ ss_pending_spam' = ss_pending_spam
       /\ \A t \in Threads :
            /\ (pc[t] = "delete" /\ pc'[t] # "delete") =>
                   /\ pending_spam' = pending_spam
                   /\ ss_pending_spam' = ss_pending_spam
            /\ (pc[t] = "decide" /\ pc'[t] # "decide" /\ pending_spam' # pending_spam) =>
                   /\ api_deletes' = api_deletes
                   /\ pc'[t] # "delete"]_vars

\* the loop has called delete_comment for a comment: the verdict is a spam
\* decision and nothing is pending
C37_Witness ==
    \E t \in Threads :
        /\ pc[t] = "delete"
        /\ api_deletes[comments[t][ci[t]].id] = 1
        /\ prediction[t].is_spam
        /\ prediction[t].confidence > confidence_threshold
        /\ pending_spam = <<>>

\* ------------------------------------------- the log entries of one comment

\* the largest number of spam decisions in a run of numbered comments
MaxSpam == 1

\* how the processing of a comment ends: the verdict is no spam decision, or
\* the comment is deleted, or delete_comment fails, or the comment is put on
\* the pending list
ProcessOutcomes == {"normal", "deleted", "delete_failed", "pending"}

\* the engine's log after _process_comment has processed comment k
ProcessedLogsDetectionFirst(logs, k, outcome) ==
    LET det == add_log_entry(logs, "SPAM_DETECTED", k)
        new == add_log_entry(det, "NEW_COMMENT", k)
    IN  CASE outcome = "normal" -> add_log_entry(logs, "NEW_COMMENT", k)
          [] outcome = "deleted" -> add_log_entry(new, "DELETED", k)
          [] outcome = "delete_failed" -> new
          [] outcome = "pending" -> add_log_entry(new, "PENDING_SPAM", k)
ProcessedLogs(logs, k, outcome) ==
    LET new == add_log_entry(logs, "NEW_COMMENT", k)
        det == add_log_entry(new, "SPAM_DETECTED", k)
    IN  CASE outcome = "normal" -> new
          [] outcome = "deleted" -> add_log_entry(det, "DELETED", k)
          [] outcome = "delete_failed" -> det
          [] outcome = "pending" -> add_log_entry(det, "PENDING_SPAM", k)

\* the statistics after _process_comment has processed a comment
ProcessedStatistics(stats, outcome) ==
    LET counted == Inc(stats, "comments_processed")
        detected == [counted EXCEPT !.spam_detected = @ + 1, !.has_spam_detected = TRUE]
    IN  CASE outcome = "normal" -> counted
          [] outcome = "deleted" -> Inc(detected, "spam_removed")
          [] outcome = "delete_failed" -> detected
          [] outcome = "pending" -> detected

\* _process_comment called for the next comment, comments being numbered as
\* they arrive: the whole call, the classifier and delete_comment answering
\* at once
ProcessNumberedComment ==
    /\ uiPc = "idle"
    /\ statistics.comments_processed < MaxLogAppends
    /\ LET k == statistics.comments_processed + 1
           current_auto_delete ==
               CurrentAutoDelete(auto_delete_enabled, ss_auto_delete_enabled, ssVisible)
       IN \E outcome \in ProcessOutcomes :
            /\ outcome # "normal" => statistics.spam_detected < MaxSpam
            /\ outcome \in {"deleted", "delete_failed"} => current_auto_delete
            /\ outcome = "pending" => ~current_auto_delete
            /\ statistics' = ProcessedStatistics(statistics, outcome)
            /\ internal_logs' = ProcessedLogs(internal_logs, k, outcome)
            /\ auto_delete_enabled' =
                   IF outcome = "normal" THEN auto_delete_enabled ELSE current_auto_delete
            /\ pending_spam' = IF outcome = "pending"
                               THEN add_to_pending_spam(pending_spam, k) ELSE pending_spam
            /\ ss_pending_spam' = IF outcome = "pending" /\ ssVisible
                                  THEN add_to_pending_spam(ss_pending_spam, k)
                                  ELSE ss_pending_spam
    /\ UNCHANGED <<is_running, monitor_thread, confidence_threshold, processed_comments,
                   last_check, ss_auto_delete_enabled, ss_statistics, ss_monitor_logs,
                   ssVisible, poll_interval, trimmed, activityVars, deleteVars, threadVars, uiPc,
                   historyVars>>

\* comments processed one after the other while the operator toggles
\* auto-delete
NextLogOrder ==
    \/ ProcessNumberedComment
    \/ ToggleSession
    \/ ToggleUpdateConfig

SpecLogOrder == Init /\ [][NextLogOrder]_vars

\* the entry at position i of the log follows an entry of the given action
\* for the same comment
Preceded(logs, i, action) ==
    \E j \in 1..(i - 1) :
        logs[j].action = action /\ logs[j].comment_id = logs[i].comment_id

\* the entries before position i are all of the comment of entry i, in a log
\* at its capacity: older entries of the comment have been dropped
OlderDropped(logs, i) ==
    /\ Len(logs) = LogCapacity
    /\ \A j \in 1..(i - 1) : logs[j].comment_id = logs[i].comment_id

MaxLimit == 3

\* the Python slice s[-k:] for k >= 0: -0 is 0, so s[-0:] is the whole list
SliceLast(s, k) ==
    LET start == IF k = 0 THEN 0 ELSE IF k > Len(s) THEN 0 ELSE Len(s) - k
    IN  SubSeq(s, start + 1, Len(s))

\* AutoMonitor.get_recent_activity(limit): from the session's log when it has
\* entries, else from the engine's
get_recent_activity(session, internal, k) ==
    IF session # <<>> THEN SliceLast(session, k)
    ELSE IF internal # <<>> THEN SliceLast(internal, k)
    ELSE <<>>

\* the consumer calls get_recent_activity
GetRecentActivity ==
    /\ uiPc = "idle"
    /\ \E k \in 0..MaxLimit :
         /\ limit' = k
         /\ recent' = get_recent_activity(ss_monitor_logs, internal_logs, k)
    /\ uiPc' = "activity"
    /\ UNCHANGED <<engineVars, sessionVars, poll_interval, trimmed, deleteVars,
                   threadVars, historyVars>>

\* the consumer is done with the list returned
ActivityReturn ==
    /\ uiPc = "activity"
    /\ uiPc' = "idle"
    /\ limit' = 0
    /\ recent' = <<>>
    /\ UNCHANGED <<engineVars, sessionVars, poll_interval, trimmed, deleteVars,
                   threadVars, historyVars>>

\* the engine logs, the consumer syncs and reads the recent activity
NextActivity ==
    \/ AddLogEntry
    \/ SyncLogs
    \/ GetRecentActivity
    \/ ActivityReturn

SpecActivity == Init /\ [][NextActivity]_vars

\* C39, as the specification states it: get_recent_activity(limit) returns,
\* for every limit >= 0 and every log of n entries, the min(limit, n) most
\* recent entries, oldest first, and never more than limit entries.  The
\* code does not keep it for limit = 0.
C39_RecentActivityAtMostLimit ==
    uiPc = "activity" =>
        LET logs == IF ss_monitor_logs # <<>> THEN ss_monitor_logs ELSE internal_logs
            n == Len(logs)
            m == IF limit < n THEN limit ELSE n
        IN  /\ Len(recent) <= limit
            /\ recent = SubSeq(logs, n - m + 1, n)

\* C40, as the specification states it: reset_statistics keeps the DedupSet,
\* so while the engine stays running the set of processed comments loses no
\* id (the eviction at 1000 ids is out of reach of MaxCycles cycles).  The
\* code clears the set in reset_statistics.
C40_ResetKeepsDedupSet ==
    [][(is_running /\ is_running') => processed_comments \subseteq processed_comments']_vars

====
